---------------------------- MODULE Spec2Model ----------------------------
(***************************************************************************)
(* EchoNote: the Flask task orchestrator (server.py), the stage-gated      *)
(* worker pipelines it runs as subprocesses (worker/transcribe_and_segment *)
(* .py, worker/summarize_chapters.py) and the window builder.              *)
(*                                                                         *)
(* Spec     the server: request handler threads, one worker thread per     *)
(*          accepted submission, the lecture directory they share.         *)
(* SpecFair the server, each started worker thread keeps being scheduled   *)
(*          and its work function returns or raises.                       *)
(* SpecWin  create_sliding_windows, run one loop iteration at a time on    *)
(*          inputs drawn from bounded sets (SpecWinFair: the call keeps    *)
(*          running).                                                      *)
(* SpecSeg  steps 3-7 of the transcription script: windows, embeddings,    *)
(*          boundaries, chapters, reconstructed texts.                     *)
(* SpecDetect  detect_topic_boundaries on any embeddings and threshold.    *)
(* SpecMerge  merge_windows_into_chapters on any windows and boundaries.    *)
(* SpecSum  summarize_chapters, one summarizer call at a time.             *)
(* SpecRerun  the transcription script run twice in a row, to the end,     *)
(*          with the same arguments on one lecture directory.              *)
(***************************************************************************)
EXTENDS Integers, Sequences, FiniteSets, TLC

(***************************************************************************)
(* Bounds.                                                                 *)
(***************************************************************************)
\* HTTP requests served in one process lifetime (each runs on its own thread)
MaxRequests == 2
\* segments in a transcript
MaxSegs == 2
\* largest window_size, overlap and segment start or end drawn (seconds)
MaxTime == 3
\* windows built before a loop that cannot end is no longer followed
MaxWindows == 3
\* raw chapters in a chapters_raw.json handed to the summarization script
MaxChapters == 2

Slots == 1..MaxRequests

(***************************************************************************)
(* The data directory.  lec1 was uploaded (directory and video), lec2 is a *)
(* directory without a video, lec3 has no directory; "" is a request that  *)
(* carries no lecture_id.                                                  *)
(***************************************************************************)
Lectures == {"lec1", "lec2", "lec3"}
LectureIds == Lectures \cup {""}
Artifacts == {"audio", "segments", "srt", "chapters_raw", "chapters"}

\* A file is absent, opened for writing and not yet fully written
\* ("partial"), or complete; a complete JSON list is empty or not.
Complete(c) == c \in {"empty", "nonempty"}
\* a check that the file holds a complete document
ExistsAndParses(c) == c \in {"empty", "nonempty"}

Exists(c) == c # "absent"

VARIABLES
    tasks,          \* server.py: tasks = {}
    task_counter,   \* server.py: task_counter = 0
    fs,             \* DATA_DIR: per lecture, the directory, video, artifacts
    req,            \* per request: the thread's position and locals
    segments,       \* create_sliding_windows: argument
    window_size,    \* create_sliding_windows: argument
    overlap,        \* create_sliding_windows: argument
    cw_pc,          \* create_sliding_windows: position
    current_start,  \* create_sliding_windows: local
    windows,        \* create_sliding_windows: local, the result
    threshold,      \* transcribe_and_segment.main: args.threshold
    embeddings,     \* transcribe_and_segment.main: embeddings
    boundaries,     \* transcribe_and_segment.main: boundaries
    chapters,       \* transcribe_and_segment.main: chapters
    seg_pc,         \* transcribe_and_segment.main: position in steps 3-7
    raw_chapters,   \* summarize_chapters: argument chapters
    use_gemini,     \* summarize_chapters: argument
    outcomes,       \* summarize_chapters: how each summarizer call so far went
    enriched_chapters, \* summarize_chapters: local, the result
    sum_pc,         \* summarize_chapters: position
    disk,           \* transcribe_and_segment.main: the files of output_dir
    run,            \* transcribe_and_segment.main: which invocation, position
    after_first,    \* the files as the first invocation left them
    embedder        \* compute_embeddings: the vector the model gave each text

svars == <<tasks, task_counter, fs, req>>
pvars == <<threshold, embeddings, boundaries, chapters, seg_pc>>
mvars == <<raw_chapters, use_gemini, outcomes, enriched_chapters, sum_pc>>
rvars == <<disk, run, after_first, embedder>>
wvars == <<segments, window_size, overlap, cw_pc, current_start, windows,
           pvars, mvars, rvars>>
vars == <<tasks, task_counter, fs, req,
          segments, window_size, overlap, cw_pc, current_start, windows,
          threshold, embeddings, boundaries, chapters, seg_pc,
          raw_chapters, use_gemini, outcomes, enriched_chapters, sum_pc,
          disk, run, after_first, embedder>>

(***************************************************************************)
(* Python dict helpers.                                                    *)
(***************************************************************************)
\* d[k] = v on a dict: adds the key or overwrites it
SetKey(d, k, v) == [x \in (DOMAIN d) \cup {k} |-> IF x = k THEN v ELSE d[x]]
HasKey(d, k) == k \in DOMAIN d
EmptyDict == [x \in {} |-> 0]

\* f"transcribe_{task_counter}" / f"summarize_{task_counter}"
TaskId(prefix, n) == <<prefix, n>>

Prefix(kind) == IF kind = "transcription" THEN "transcribe" ELSE "summarize"


(***************************************************************************)
(* Initial state of the server process.                                    *)
(***************************************************************************)
NoDir == [dir |-> FALSE, video |-> FALSE, audio |-> "absent",
          segments |-> "absent", srt |-> "absent",
          chapters_raw |-> "absent", chapters |-> "absent"]

\* upload_video: the directory is made and the video saved in it
Uploaded == [NoDir EXCEPT !.dir = TRUE, !.video = TRUE]

\* the directory after an earlier, successful transcription run
Transcribed == [Uploaded EXCEPT !.audio = "nonempty", !.segments = "nonempty",
                                !.srt = "nonempty", !.chapters_raw = "nonempty"]

\* the directory after an earlier, successful summarization run
Summarized == [Transcribed EXCEPT !.chapters = "nonempty"]

\* The data directory outlives the process; the task table does not.
InitialDirs ==
    { [l \in Lectures |->
          CASE l = "lec1" -> d
            [] l = "lec2" -> [NoDir EXCEPT !.dir = TRUE]
            [] OTHER -> NoDir] : d \in {Uploaded, Transcribed, Summarized} }

NoTaskId == <<"none", 0>>

IdleReq == [pc |-> "idle", kind |-> "none", lecture_id |-> "", tmp |-> 0,
            task_id |-> NoTaskId, resp |-> [code |-> 0], calls |-> {},
            had_chapters |-> FALSE, segs |-> "none", chaps |-> "none",
            raised |-> FALSE]

InitServer ==
    /\ tasks = EmptyDict
    /\ task_counter = 0
    /\ fs \in InitialDirs
    /\ req = [r \in Slots |-> IdleReq]

(***************************************************************************)
(* Request threads.  Flask serves every request on a thread of its own, so *)
(* a handler is a sequence of steps that other threads interleave with.    *)
(* Requests are taken in slot order (the slots are interchangeable).       *)
(***************************************************************************)
Fresh(r) == /\ req[r].pc = "idle"
            /\ \A q \in Slots : q < r => req[q].pc # "idle"

\* the error response is built but not returned: the handler goes on
Reject_without_return(r, kind, lecture_id, code, error) ==
    req' = [req EXCEPT ![r] = [@ EXCEPT !.pc = "h_load", !.kind = kind,
                                        !.lecture_id = lecture_id,
                                        !.resp = [code |-> code, error |-> error]]]

Reject(r, kind, lecture_id, code, error) ==
    req' = [req EXCEPT ![r] = [@ EXCEPT !.pc = "rejected", !.kind = kind,
                                        !.lecture_id = lecture_id,
                                        !.resp = [code |-> code, error |-> error]]]

Accept(r, kind, lecture_id) ==
    req' = [req EXCEPT ![r] = [@ EXCEPT !.pc = "h_load", !.kind = kind,
                                        !.lecture_id = lecture_id]]

\* start_transcription, lines 189-208: the checks before the task is created
start_transcription(r, lecture_id) ==
    /\ Fresh(r)
    /\ CASE lecture_id = "" ->
              Reject(r, "transcription", lecture_id, 400, "lecture_id required")
         [] lecture_id # "" /\ ~fs[lecture_id].dir ->
              Reject(r, "transcription", lecture_id, 404, "Lecture not found")
         [] lecture_id # "" /\ fs[lecture_id].dir /\ ~fs[lecture_id].video ->
              Reject(r, "transcription", lecture_id, 404, "No video file found")
         [] OTHER -> Accept(r, "transcription", lecture_id)
    /\ UNCHANGED <<tasks, task_counter, fs, wvars>>

\* if not lecture_dir.exists(): the directory is looked at, not the file
lecture_dir_exists(lecture_id) == fs[lecture_id].dir

\* if not chapters_raw.exists()
chapters_raw_exists(lecture_id) == Exists(fs[lecture_id].chapters_raw)

\* start_summarization, lines 239-249: the checks before the task is created
start_summarization(r, lecture_id) ==
    /\ Fresh(r)
    /\ CASE lecture_id = "" ->
              Reject(r, "summarization", lecture_id, 400, "lecture_id required")
         [] lecture_id # "" /\ ~chapters_raw_exists(lecture_id) ->
              Reject(r, "summarization", lecture_id, 404,
                     "chapters_raw.json not found. Run transcription first.")
         [] OTHER -> Accept(r, "summarization", lecture_id)
    /\ UNCHANGED <<tasks, task_counter, fs, wvars>>

\* task_counter += 1, first half: the global is read
task_counter_load(r) ==
    /\ req[r].pc = "h_load"
    /\ req' = [req EXCEPT ![r] = [@ EXCEPT !.pc = "h_store", !.tmp = task_counter]]
    /\ UNCHANGED <<tasks, task_counter, fs, wvars>>

\* task_counter += 1, second half: the sum is stored
task_counter_store(r) ==
    /\ req[r].pc = "h_store"
    /\ task_counter' = req[r].tmp + 1
    /\ req' = [req EXCEPT ![r] = [@ EXCEPT !.pc = "h_id", !.tmp = 0]]
    /\ UNCHANGED <<tasks, fs, wvars>>

\* task_id = f"transcribe_{task_counter}": the global is read again
task_id_format(r) ==
    /\ req[r].pc = "h_id"
    /\ req' = [req EXCEPT ![r] = [@ EXCEPT !.pc = "h_reg",
                   !.task_id = TaskId(Prefix(req[r].kind), task_counter)]]
    /\ UNCHANGED <<tasks, task_counter, fs, wvars>>

\* the record a submission stores; created_at is the submitting request's time
NewTask(r) ==
    [task_id |-> req[r].task_id, type |-> req[r].kind,
     lecture_id |-> req[r].lecture_id, status |-> "pending", created_at |-> r]

Started(kind) == IF kind = "transcription" THEN "Transcription started"
                 ELSE "Summarization started"

\* tasks[task_id] = {...}; thread.start(); return jsonify(...)
tasks_register(r) ==
    /\ req[r].pc = "h_reg"
    /\ tasks' = SetKey(tasks, req[r].task_id, NewTask(r))
    /\ req' = [req EXCEPT ![r] = [@ EXCEPT !.pc = "w_pending",
                   !.resp = [code |-> 200, task_id |-> req[r].task_id,
                             message |-> Started(req[r].kind)]]]
    /\ UNCHANGED <<task_counter, fs, wvars>>

(***************************************************************************)
(* get_task_status                                                         *)
(***************************************************************************)
AllTaskIds == ({"transcribe", "summarize"} \X (1..MaxRequests)) \cup {<<"unknown", 0>>}

\* return jsonify(tasks.get(task_id, {})): an unknown id is answered 200
status_response_or_empty(task_id) ==
    IF task_id \notin DOMAIN tasks
    THEN [code |-> 200, body |-> EmptyDict]
    ELSE [code |-> 200, body |-> tasks[task_id]]

\* if task_id not in tasks: 404; return jsonify(tasks[task_id])
status_response(task_id) ==
    IF task_id \notin DOMAIN tasks
    THEN [code |-> 404, error |-> "Task not found"]
    ELSE [code |-> 200, body |-> tasks[task_id]]

get_task_status(r, task_id) ==
    /\ Fresh(r)
    /\ req' = [req EXCEPT ![r] = [@ EXCEPT !.pc = "answered", !.kind = "status",
                   !.task_id = task_id, !.resp = status_response(task_id)]]
    /\ UNCHANGED <<tasks, task_counter, fs, wvars>>

(***************************************************************************)
(* Worker threads: run_async_task(task_id, func, ...), one per accepted    *)
(* submission.  func is transcribe_video or summarize_chapters_task; each  *)
(* runs a worker script as a subprocess and raises when it exits non-zero. *)
(***************************************************************************)
SetField(r, k, v) ==
    tasks' = [tasks EXCEPT ![req[r].task_id] = SetKey(@, k, v)]

Dir(r) == fs[req[r].lecture_id]

\* the old file is unlinked before the new one is created on close
WriteFile_after_unlink(r, artifact, content) ==
    fs' = [fs EXCEPT ![req[r].lecture_id][artifact] =
                         IF content = "partial" THEN "absent" ELSE content]

WriteFile(r, artifact, content) ==
    fs' = [fs EXCEPT ![req[r].lecture_id][artifact] = content]

Goto(r, pc) == req' = [req EXCEPT ![r] = [@ EXCEPT !.pc = pc]]

\* The subprocess has exited and its memory is gone.  The work function
\* returns (pc w_completed) or raises into the except branch (pc w_failed).
Exit(r, pc) ==
    req' = [req EXCEPT ![r] = [@ EXCEPT !.pc = pc, !.segs = "none", !.chaps = "none",
                                        !.calls = {}, !.had_chapters = FALSE,
                                        !.raised = (pc = "w_failed")]]

\* tasks[task_id]['status'] = 'running', then func(...) starts its subprocess
run_async_task_running(r) ==
    /\ req[r].pc = "w_pending"
    /\ SetField(r, "status", "running")
    /\ req' = [req EXCEPT ![r] = [@ EXCEPT
                   !.pc = IF req[r].kind = "transcription"
                          THEN "t_audio_check" ELSE "s_load",
                   !.had_chapters = Complete(Dir(r).chapters)]]
    /\ UNCHANGED <<task_counter, fs, wvars>>

(***************************************************************************)
(* worker/transcribe_and_segment.py, main()                                *)
(***************************************************************************)
\* Step 1: if not audio_path.exists(): extract_audio(...).  (The video the
\* server passes exists, so the script's own video_path check passes.)
t_audio_check(r) ==
    /\ req[r].pc = "t_audio_check"
    /\ IF Exists(Dir(r).audio)
       THEN Goto(r, "t_seg_check")
       ELSE req' = [req EXCEPT ![r] = [@ EXCEPT !.pc = "t_audio_open",
                        !.calls = @ \cup {"transcoder"}]]
    /\ UNCHANGED <<tasks, task_counter, fs, wvars>>

\* extract_audio: ffmpeg -y creates (or truncates) the output file
t_audio_open(r) ==
    /\ req[r].pc = "t_audio_open"
    /\ WriteFile(r, "audio", "partial")
    /\ Goto(r, "t_audio_write")
    /\ UNCHANGED <<tasks, task_counter, wvars>>

\* extract_audio: ffmpeg finishes the file and exits 0
t_audio_write(r) ==
    /\ req[r].pc = "t_audio_write"
    /\ WriteFile(r, "audio", "nonempty")
    /\ Goto(r, "t_seg_check")
    /\ UNCHANGED <<tasks, task_counter, wvars>>

\* Step 2: if not segments_path.exists(): transcribe_audio(...), whose result
\* may be an empty list; else json.load(segments.json), which raises on a
\* file that is not complete JSON
t_seg_check(r) ==
    /\ req[r].pc = "t_seg_check"
    /\ CASE ~Exists(Dir(r).segments) ->
              \E s \in {"empty", "nonempty"} :
                  req' = [req EXCEPT ![r] = [@ EXCEPT !.pc = "t_seg_open",
                              !.calls = @ \cup {"transcriber"}, !.segs = s]]
         [] Dir(r).segments = "partial" -> Exit(r, "w_failed")
         [] OTHER ->
              req' = [req EXCEPT ![r] = [@ EXCEPT !.pc = "t_chap_compute",
                          !.segs = Dir(r).segments]]
    /\ UNCHANGED <<tasks, task_counter, fs, wvars>>

\* with open(segments_path, 'w') as f:
t_seg_open(r) ==
    /\ req[r].pc = "t_seg_open"
    /\ WriteFile(r, "segments", "partial")
    /\ Goto(r, "t_seg_dump")
    /\ UNCHANGED <<tasks, task_counter, wvars>>

\* json.dump(segments, f), file closed
t_seg_dump(r) ==
    /\ req[r].pc = "t_seg_dump"
    /\ WriteFile(r, "segments", req[r].segs)
    /\ Goto(r, "t_srt_open")
    /\ UNCHANGED <<tasks, task_counter, wvars>>

\* segments_to_srt: open(output_path, 'w'); for no segments the empty file
\* is already the whole subtitle file
t_srt_open(r) ==
    /\ req[r].pc = "t_srt_open"
    /\ WriteFile(r, "srt", IF req[r].segs = "empty" THEN "empty" ELSE "partial")
    /\ Goto(r, "t_srt_write")
    /\ UNCHANGED <<tasks, task_counter, wvars>>

\* segments_to_srt: the blocks are written, file closed
t_srt_write(r) ==
    /\ req[r].pc = "t_srt_write"
    /\ WriteFile(r, "srt", req[r].segs)
    /\ Goto(r, "t_chap_compute")
    /\ UNCHANGED <<tasks, task_counter, wvars>>

\* Steps 3-7: windows, compute_embeddings (always called), boundaries, merge.
\* No segments give no chapters; so does a transcript of a single window,
\* for which detect_topic_boundaries returns no boundary.
t_chap_compute(r) ==
    /\ req[r].pc = "t_chap_compute"
    /\ \E c \in (IF req[r].segs = "empty" THEN {"empty"} ELSE {"empty", "nonempty"}) :
           req' = [req EXCEPT ![r] = [@ EXCEPT !.pc = "t_chap_open",
                       !.calls = @ \cup {"embedder"}, !.chaps = c]]
    /\ UNCHANGED <<tasks, task_counter, fs, wvars>>

\* Step 8: with open(chapters_path, 'w') as f:
t_chap_open(r) ==
    /\ req[r].pc = "t_chap_open"
    /\ WriteFile(r, "chapters_raw", "partial")
    /\ Goto(r, "t_chap_dump")
    /\ UNCHANGED <<tasks, task_counter, wvars>>

\* json.dump(chapters, f); the script exits 0, transcribe_video returns
t_chap_dump(r) ==
    /\ req[r].pc = "t_chap_dump"
    /\ WriteFile(r, "chapters_raw", req[r].chaps)
    /\ Exit(r, "w_completed")
    /\ UNCHANGED <<tasks, task_counter, wvars>>

(***************************************************************************)
(* worker/summarize_chapters.py, main()                                    *)
(***************************************************************************)
\* chapters_path.exists() or exit 1; json.load raises on an incomplete file
s_load(r) ==
    /\ req[r].pc = "s_load"
    /\ IF Complete(Dir(r).chapters_raw)
       THEN req' = [req EXCEPT ![r] = [@ EXCEPT !.pc = "s_summarize",
                        !.chaps = Dir(r).chapters_raw]]
       ELSE Exit(r, "w_failed")
    /\ UNCHANGED <<tasks, task_counter, fs, wvars>>

\* an LLM is chosen (or exit 1, see subprocess_fails) and summarize_chapters
\* calls it once per chapter; a failed call is replaced by the fallback
s_summarize(r) ==
    /\ req[r].pc = "s_summarize"
    /\ req' = [req EXCEPT ![r] = [@ EXCEPT !.pc = "s_open",
                   !.calls = IF req[r].chaps = "nonempty"
                             THEN @ \cup {"summarizer"} ELSE @]]
    /\ UNCHANGED <<tasks, task_counter, fs, wvars>>

\* with open(output_path, 'w') as f:
s_open(r) ==
    /\ req[r].pc = "s_open"
    /\ WriteFile(r, "chapters", "partial")
    /\ Goto(r, "s_dump")
    /\ UNCHANGED <<tasks, task_counter, wvars>>

\* json.dump(enriched_chapters, f); then the statistics, whose average
\* divides by len(enriched_chapters)
s_dump(r) ==
    /\ req[r].pc = "s_dump"
    /\ WriteFile(r, "chapters", req[r].chaps)
    /\ Exit(r, IF req[r].chaps = "empty" THEN "w_failed" ELSE "w_completed")
    /\ UNCHANGED <<tasks, task_counter, wvars>>

SubprocessPcs == {"t_audio_check", "t_audio_open", "t_audio_write", "t_seg_check",
                  "t_seg_open", "t_seg_dump", "t_srt_open", "t_srt_write",
                  "t_chap_compute", "t_chap_open", "t_chap_dump",
                  "s_load", "s_summarize", "s_open", "s_dump"}

\* The script ends with a non-zero exit code where it stands: an external
\* tool or model fails (sys.exit(1) or an uncaught exception) or the process
\* is killed.  result.returncode != 0, so the work function raises.
subprocess_fails(r) ==
    /\ req[r].pc \in SubprocessPcs
    /\ Exit(r, "w_failed")
    /\ UNCHANGED <<tasks, task_counter, fs, wvars>>

(***************************************************************************)
(* run_async_task, after func returned or raised                           *)
(***************************************************************************)
Result(r) ==
    IF req[r].kind = "transcription"
    THEN [message |-> "Transcription completed", lecture |-> req[r].lecture_id]
    ELSE [message |-> "Summarization completed", lecture |-> req[r].lecture_id]

\* str(e) of the Exception(error_msg) the work function raised
ErrorMsg(r) ==
    IF req[r].kind = "transcription"
    THEN "Transcription failed (exit code 1)"
    ELSE "Summarization failed (exit code 1)"

\* tasks[task_id]['status'] = 'completed'
run_async_task_completed(r) ==
    /\ req[r].pc = "w_completed"
    /\ SetField(r, "status", "completed")
    /\ Goto(r, "w_result")
    /\ UNCHANGED <<task_counter, fs, wvars>>

\* tasks[task_id]['result'] = result
run_async_task_result(r) ==
    /\ req[r].pc = "w_result"
    /\ SetField(r, "result", Result(r))
    /\ Goto(r, "w_completed_at")
    /\ UNCHANGED <<task_counter, fs, wvars>>

\* the exception leaves run_async_task and the thread ends
exception_escapes(r) ==
    /\ req[r].pc = "w_failed"
    /\ Goto(r, "finished")
    /\ UNCHANGED <<tasks, task_counter, fs, wvars>>

\* tasks[task_id]['status'] = 'failed'
run_async_task_failed(r) ==
    /\ req[r].pc = "w_failed"
    /\ SetField(r, "status", "failed")
    /\ Goto(r, "w_error")
    /\ UNCHANGED <<task_counter, fs, wvars>>

\* tasks[task_id]['error'] = str(e)
run_async_task_error(r) ==
    /\ req[r].pc = "w_error"
    /\ SetField(r, "error", ErrorMsg(r))
    /\ Goto(r, "w_completed_at")
    /\ UNCHANGED <<task_counter, fs, wvars>>

\* tasks[task_id]['completed_at'] = datetime.now().isoformat(); thread ends
run_async_task_completed_at(r) ==
    /\ req[r].pc = "w_completed_at"
    /\ SetField(r, "completed_at", r)
    /\ Goto(r, "finished")
    /\ UNCHANGED <<task_counter, fs, wvars>>

(***************************************************************************)
(* The server.                                                             *)
(***************************************************************************)
WinIdle ==
    /\ segments = <<>>
    /\ window_size = 0
    /\ overlap = 0
    /\ cw_pc = "off"
    /\ current_start = 0
    /\ windows = <<>>

\* steps 3-7 of the transcription script are not being followed
SegIdle ==
    /\ threshold = 0
    /\ embeddings = <<>>
    /\ boundaries = <<>>
    /\ chapters = <<>>
    /\ seg_pc = "off"

\* summarize_chapters is not being followed
SumIdle ==
    /\ raw_chapters = <<>>
    /\ use_gemini = FALSE
    /\ outcomes = <<>>
    /\ enriched_chapters = <<>>
    /\ sum_pc = "off"

\* no lecture directory is being followed file by file
NoFile == [exists |-> FALSE, content |-> <<>>]
File(content) == [exists |-> TRUE, content |-> content]
NoFiles == [audio |-> NoFile, segments_json |-> NoFile, srt |-> NoFile,
            chapters_raw_json |-> NoFile]

RerunIdle ==
    /\ disk = NoFiles
    /\ run = [n |-> 0, pc |-> "off"]
    /\ after_first = NoFiles
    /\ embedder = EmptyDict

Init == InitServer /\ WinIdle /\ SegIdle /\ SumIdle /\ RerunIdle

Next ==
    \E r \in Slots :
        \/ \E l \in LectureIds : start_transcription(r, l)
        \/ \E l \in LectureIds : start_summarization(r, l)
        \/ \E id \in AllTaskIds : get_task_status(r, id)
        \/ task_counter_load(r)
        \/ task_counter_store(r)
        \/ task_id_format(r)
        \/ tasks_register(r)
        \/ run_async_task_running(r)
        \/ t_audio_check(r)
        \/ t_audio_open(r)
        \/ t_audio_write(r)
        \/ t_seg_check(r)
        \/ t_seg_open(r)
        \/ t_seg_dump(r)
        \/ t_srt_open(r)
        \/ t_srt_write(r)
        \/ t_chap_compute(r)
        \/ t_chap_open(r)
        \/ t_chap_dump(r)
        \/ s_load(r)
        \/ s_summarize(r)
        \/ s_open(r)
        \/ s_dump(r)
        \/ subprocess_fails(r)
        \/ run_async_task_completed(r)
        \/ run_async_task_result(r)
        \/ run_async_task_failed(r)
        \/ run_async_task_error(r)
        \/ run_async_task_completed_at(r)

Spec == Init /\ [][Next]_vars

(***************************************************************************)
(* Properties of the task orchestrator and the stage gate.                 *)
(***************************************************************************)
\* request r was accepted, its record stored and its task_id returned
Submitted(r) ==
    /\ req[r].kind \in {"transcription", "summarization"}
    /\ req[r].resp.code = 200

ReturnedIds == {req[r].task_id : r \in {q \in Slots : Submitted(q)}}

LifecycleSteps == {<<"pending", "running">>, <<"running", "completed">>,
                   <<"running", "failed">>}

\* C1: every task's status only ever moves pending -> running ->
\* (completed | failed): a record is created pending, and a step changes a
\* record's status only along one of these three edges, so a completed or
\* failed task never changes status again.
C1_StatusLifecycle ==
    [][\A id \in DOMAIN tasks' :
          IF id \in DOMAIN tasks
          THEN \/ tasks'[id].status = tasks[id].status
               \/ <<tasks[id].status, tasks'[id].status>> \in LifecycleSteps
          ELSE tasks'[id].status = "pending"]_vars

\* C2: a status read never returns a half-updated record: a record read
\* with status completed has result and completed_at, one read with status
\* failed has error and completed_at.
C2_NoHalfUpdatedRead ==
    \A r \in Slots :
        (req[r].kind = "status" /\ req[r].resp.code = 200) =>
            LET body == req[r].resp.body IN
            /\ body.status = "completed" =>
                   HasKey(body, "result") /\ HasKey(body, "completed_at")
            /\ body.status = "failed" =>
                   HasKey(body, "error") /\ HasKey(body, "completed_at")

\* C3: once the work function of a task has raised, the task's record
\* never shows completed and never holds a result, and when the worker
\* thread has ended (the failure did not escape it) the record is failed
\* with a non-empty error.
C3_RaisedEndsFailed ==
    \A r \in Slots :
        req[r].raised =>
            LET t == tasks[req[r].task_id] IN
            /\ t.status # "completed"
            /\ ~HasKey(t, "result")
            /\ req[r].pc = "finished" =>
                   t.status = "failed" /\ HasKey(t, "error") /\ t.error # ""

\* C4: no two accepted submissions return the same task_id, and the task
\* table holds one record per accepted submission.
C4_FreshTaskIds ==
    /\ \A r1, r2 \in Slots :
           (r1 # r2 /\ Submitted(r1) /\ Submitted(r2)) =>
               req[r1].task_id # req[r2].task_id
    /\ Cardinality(DOMAIN tasks) = Cardinality({r \in Slots : Submitted(r)})

\* C5: a status query leaves the task table unchanged; for a task_id no
\* submission returned it answers 404 "Task not found", and for a task_id a
\* submission returned it answers with that task's record as it is then.
C5_StatusQuery ==
    [][\A r \in Slots :
          (req[r].pc = "idle" /\ req'[r].pc = "answered") =>
              /\ tasks' = tasks
              /\ IF req'[r].task_id \in ReturnedIds
                 THEN req'[r].resp = [code |-> 200, body |-> tasks[req'[r].task_id]]
                 ELSE req'[r].resp = [code |-> 404, error |-> "Task not found"]]_vars

\* C5 witness: with a task in the table, one query was answered not-found
\* and the table still holds the task.
C5_Witness ==
    \E r, q \in Slots :
        /\ req[r].pc = "answered" /\ req[r].resp.code = 404
        /\ Submitted(q) /\ req[q].task_id \in DOMAIN tasks

\* C6: an invocation of either pipeline leg on a lecture whose chapters.json
\* was already complete when the invocation began makes no external call
\* (transcoder, transcriber, embedder, summarizer).
C6_NoExternalCallsWhenDone ==
    \A r \in Slots : req[r].had_chapters => req[r].calls = {}

WritingPc(artifact) ==
    CASE artifact = "audio" -> "t_audio_write"
      [] artifact = "segments" -> "t_seg_dump"
      [] artifact = "srt" -> "t_srt_write"
      [] artifact = "chapters_raw" -> "t_chap_dump"
      [] artifact = "chapters" -> "s_dump"

\* C7: artifact writes are atomic: an artifact file that exists without
\* holding a stage's complete output is only ever seen while a live
\* subprocess is still writing it, never after the writer has ended.
C7_ArtifactWritesAtomic ==
    \A l \in Lectures : \A a \in Artifacts :
        fs[l][a] = "partial" =>
            \E r \in Slots : req[r].lecture_id = l /\ req[r].pc = WritingPc(a)

ChaptersRawError == "chapters_raw.json not found. Run transcription first."

\* C8: a summarization request for a lecture whose chapters_raw.json does
\* not exist is answered at once with the error naming chapters_raw.json;
\* no task is registered, the counter and every file stay as they were and
\* no worker is started.
C8_MissingChaptersRaw ==
    [][\A r \in Slots : \A l \in Lectures :
          (/\ req[r].pc = "idle" /\ req'[r].pc # "idle"
           /\ req'[r].kind = "summarization" /\ req'[r].lecture_id = l
           /\ fs[l].chapters_raw = "absent") =>
              /\ req'[r].pc = "rejected"
              /\ req'[r].resp = [code |-> 404, error |-> ChaptersRawError]
              /\ tasks' = tasks /\ task_counter' = task_counter /\ fs' = fs]_vars

\* C8 witness: a summarization request for an uploaded lecture that has no
\* chapters_raw.json was rejected with that error.
C8_Witness ==
    \E r \in Slots :
        /\ req[r].kind = "summarization" /\ req[r].pc = "rejected"
        /\ req[r].lecture_id = "lec1" /\ fs["lec1"].chapters_raw = "absent"
        /\ req[r].resp.error = ChaptersRawError

InFlight(l) ==
    {id \in DOMAIN tasks : /\ tasks[id].lecture_id = l
                           /\ tasks[id].status \in {"pending", "running"}}

\* C9: at most one task per lecture_id is in flight (pending or running)
\* at any time.
C9_OneTaskPerLecture ==
    \A l \in Lectures : Cardinality(InFlight(l)) <= 1

\* C22: a registered task record is never removed from the task table and
\* its task_id, type, lecture_id and created_at never change afterwards;
\* the only keys written after submission are status, completed_at, result
\* and error.
C22_RecordWriteOnce ==
    [][\A id \in DOMAIN tasks :
          /\ id \in DOMAIN tasks'
          /\ \A k \in {"task_id", "type", "lecture_id", "created_at"} :
                 tasks'[id][k] = tasks[id][k]
          /\ \A k \in DOMAIN tasks[id] : k \in DOMAIN tasks'[id]
          /\ \A k \in DOMAIN tasks'[id] :
                 (k \notin DOMAIN tasks[id] \/ tasks'[id][k] # tasks[id][k]) =>
                     k \in {"status", "completed_at", "result", "error"}]_vars

\* C24: in one invocation of the transcription script the transcoder is
\* called only when the audio file is absent and the transcriber only when
\* segments.json is absent; an invocation that finds segments.json present
\* takes its segments from the file (or fails reading it), and only an
\* invocation that called the transcriber writes segments.json or
\* lecture.srt.
C24_StageGating ==
    [][\A r \in Slots :
          LET d == fs[req[r].lecture_id] IN
          /\ ("transcoder" \in req'[r].calls /\ "transcoder" \notin req[r].calls)
                 => d.audio = "absent"
          /\ ("transcriber" \in req'[r].calls /\ "transcriber" \notin req[r].calls)
                 => d.segments = "absent"
          /\ (req[r].pc = "t_seg_check" /\ req'[r] # req[r]
                  /\ d.segments # "absent")
                 => /\ "transcriber" \notin req'[r].calls
                    /\ \/ req'[r].segs = d.segments
                       \/ req'[r].raised
          /\ (req'[r] # req[r] /\ req[r].kind = "transcription"
                  /\ \/ fs'[req[r].lecture_id].segments # d.segments
                     \/ fs'[req[r].lecture_id].srt # d.srt)
                 => "transcriber" \in req[r].calls]_vars

\* an invocation found the audio and segments.json present and has loaded
\* the segments without calling the transcoder or the transcriber
C24_Witness ==
    \E r \in Slots :
        /\ req[r].pc = "t_chap_compute"
        /\ req[r].calls = {}
        /\ req[r].segs = "nonempty"
        /\ fs[req[r].lecture_id].segments = "nonempty"

\* C25: whatever transcription tasks are submitted for a lecture and
\* however they interleave, the transcriber is invoked at most once for the
\* lecture: no two invocations for the same lecture have both called the
\* transcriber (and so both go on to write segments.json).
C25_TranscribedOnce ==
    \A r, q \in Slots :
        (/\ r # q
         /\ req[r].lecture_id = req[q].lecture_id
         /\ "transcriber" \in req[r].calls)
            => "transcriber" \notin req[q].calls

\* One step of the worker thread of request r: run_async_task and the
\* subprocess its work function waits for.
worker_thread(r) ==
    \/ run_async_task_running(r)
    \/ t_audio_check(r)
    \/ t_audio_open(r)
    \/ t_audio_write(r)
    \/ t_seg_check(r)
    \/ t_seg_open(r)
    \/ t_seg_dump(r)
    \/ t_srt_open(r)
    \/ t_srt_write(r)
    \/ t_chap_compute(r)
    \/ t_chap_open(r)
    \/ t_chap_dump(r)
    \/ s_load(r)
    \/ s_summarize(r)
    \/ s_open(r)
    \/ s_dump(r)
    \/ subprocess_fails(r)
    \/ run_async_task_completed(r)
    \/ run_async_task_result(r)
    \/ run_async_task_failed(r)
    \/ run_async_task_error(r)
    \/ run_async_task_completed_at(r)

\* Started threads are scheduled fairly and every subprocess ends (with
\* exit code 0 or not); request handlers may stall.
SpecFair == Init /\ [][Next]_vars /\ \A r \in Slots : WF_vars(worker_thread(r))

Terminal(r) ==
    /\ HasKey(tasks, req[r].task_id)
    /\ tasks[req[r].task_id].status \in {"completed", "failed"}

\* C26: under fair scheduling of the worker threads, with work functions
\* that return or raise, every submitted task eventually reaches completed
\* or failed, and from some point on stays there: none is pending or
\* running forever.
C26_EveryTaskEnds ==
    \A r \in Slots : Submitted(r) ~> [](Submitted(r) /\ Terminal(r))

\* a submitted task's worker thread has ended and its record is completed
\* or failed
C26_Witness ==
    \E r \in Slots :
        /\ Submitted(r)
        /\ req[r].pc = "finished"
        /\ Terminal(r)

\* C33: the pipeline run on an empty segment list finishes without
\* failure: the transcription script that has no segments writes an empty
\* chapters_raw.json and ends well, and the summarization script that
\* loaded an empty chapter list writes chapters.json and ends well too.
C33_EmptyInputNoFailure ==
    [][\A r \in Slots :
          /\ (req[r].pc = "t_chap_dump" /\ req[r].segs = "empty"
                  /\ req'[r] # req[r] /\ fs' # fs)
                 => (req'[r].pc = "w_completed" /\ ~req'[r].raised)
          /\ (req[r].pc = "s_dump" /\ req[r].chaps = "empty"
                  /\ req'[r] # req[r] /\ fs' # fs)
                 => (req'[r].pc = "w_completed" /\ ~req'[r].raised)]_vars

\* C34: a summarization run that has created or overwritten chapters.json
\* ends with its task completed: once the run has opened chapters.json for
\* writing, its work function does not raise, so no failed summarization
\* task has touched chapters.json.
C34_FailedSummarizationWroteNothing ==
    [][\A r \in Slots :
          (/\ req[r].kind = "summarization"
           /\ req[r].pc = "s_dump"
           /\ req'[r] # req[r])
              => (req'[r].pc = "w_completed" /\ ~req'[r].raised)]_vars

\* C35: whenever a transcription task has status completed, segments.json,
\* lecture.srt and chapters_raw.json, the three files its result names, all
\* exist in the lecture directory, whatever earlier invocations on that
\* lecture did (failed or crashed part-way included).
C35_CompletedTranscriptionHasArtifacts ==
    \A id \in DOMAIN tasks :
        (tasks[id].type = "transcription" /\ tasks[id].status = "completed") =>
            /\ fs[tasks[id].lecture_id].segments # "absent"
            /\ fs[tasks[id].lecture_id].srt # "absent"
            /\ fs[tasks[id].lecture_id].chapters_raw # "absent"

\* C36: in every state of a lecture directory driven through the submit
\* operations the artifacts are downward closed along the stage order:
\* chapters.json present implies chapters_raw.json present, which implies
\* segments.json present; and no step removes an artifact.
C36_ArtifactsDownwardClosed ==
    /\ [](\A l \in Lectures :
              /\ fs[l].chapters # "absent" => fs[l].chapters_raw # "absent"
              /\ fs[l].chapters_raw # "absent" => fs[l].segments # "absent")
    /\ [][\A l \in Lectures : \A a \in Artifacts :
              fs[l][a] # "absent" => fs'[l][a] # "absent"]_vars

\* a transcription task and a summarization task of this process have both
\* completed on a lecture that now has all of its artifacts
C36_Witness ==
    \E t, u \in DOMAIN tasks :
        /\ tasks[t].type = "transcription" /\ tasks[t].status = "completed"
        /\ tasks[u].type = "summarization" /\ tasks[u].status = "completed"
        /\ tasks[t].lecture_id = tasks[u].lecture_id
        /\ \A a \in Artifacts : fs[tasks[t].lecture_id][a] # "absent"

\* C37: a submission that is rejected (no lecture_id, unknown lecture
\* directory, no video file for a transcription, no chapters_raw.json for a
\* summarization) leaves the task table and the task counter unchanged, gets
\* no task id and starts no worker thread: the request ends there.
C37_RejectionHasNoEffect ==
    [][\A r \in Slots :
          LET l == req'[r].lecture_id
              refused ==
                  \/ l = ""
                  \/ /\ req'[r].kind = "transcription"
                     /\ (~fs[l].dir \/ ~fs[l].video)
                  \/ /\ req'[r].kind = "summarization"
                     /\ fs[l].chapters_raw = "absent"
          IN /\ (/\ req[r].pc = "idle" /\ req'[r].pc # "idle"
                 /\ req'[r].kind \in {"transcription", "summarization"}
                 /\ refused)
                    => /\ req'[r].pc = "rejected"
                       /\ req'[r].resp.code \in {400, 404}
                       /\ req'[r].task_id = NoTaskId
                       /\ tasks' = tasks
                       /\ task_counter' = task_counter
             /\ req[r].pc = "rejected" => req'[r] = req[r]]_vars

\* a transcription request for a lecture without a video file was rejected
\* while a task of another request is registered
C37_Witness ==
    \E r, q \in Slots :
        /\ req[r].pc = "rejected" /\ req[r].kind = "transcription"
        /\ req[r].resp = [code |-> 404, error |-> "No video file found"]
        /\ Submitted(q) /\ req[q].task_id \in DOMAIN tasks

(***************************************************************************)
(* worker/transcribe_and_segment.py: create_sliding_windows                *)
(***************************************************************************)
Letters == <<"A", "B", "C", "D">>

Min(a, b) == IF a < b THEN a ELSE b

\* Transcripts as transcribe_audio returns them: ids in order, segments
\* ordered by start, end not before start, text stripped (possibly empty).
RECURSIVE SegmentListsOfLen(_)
SegmentListsOfLen(n) ==
    IF n = 0 THEN {<<>>}
    ELSE UNION { { Append(s, [id |-> n - 1, start |-> st, end |-> en, text |-> t]) :
                       st \in (IF s = <<>> THEN 0 ELSE s[Len(s)].start)..MaxTime,
                       en \in 0..MaxTime, t \in {"", Letters[n]} }
                 : s \in SegmentListsOfLen(n - 1) }

SegmentLists ==
    { s \in UNION { SegmentListsOfLen(n) : n \in 0..MaxSegs } :
          \A i \in 1..Len(s) : s[i].start <= s[i].end }

\* ' '.join(texts)
RECURSIVE Join(_)
Join(texts) ==
    IF texts = <<>> THEN ""
    ELSE IF Len(texts) = 1 THEN texts[1]
    ELSE texts[1] \o " " \o Join(Tail(texts))

\* total_duration = segments[-1]['end']
total_duration == segments[Len(segments)].end

\* step = window_size: the overlap is left out of the stride
step_without_overlap == window_size

\* step = window_size + overlap: the overlap is added to the stride
step_with_gap == window_size + overlap

\* step = window_size - overlap
step == window_size - overlap

\* window_end = current_start + window_size: the last window is not cut
\* off at the end of the transcript
window_end_unclamped == current_start + window_size

\* window_end = min(current_start + window_size, total_duration)
window_end == Min(current_start + window_size, total_duration)

\* seg['start'] <= window_end and seg['end'] >= current_start: a segment
\* that only touches the window counts as inside it
OverlappingOrTouching(segs, from, to) ==
    SelectSeq(segs, LAMBDA seg : seg.start <= to /\ seg.end >= from)

\* the segments with seg['start'] < window_end and seg['end'] > current_start
Overlapping(segs, from, to) ==
    SelectSeq(segs, LAMBDA seg : seg.start < to /\ seg.end > from)

\* the window the loop body builds at the current cursor
Window ==
    LET hit == Overlapping(segments, current_start, window_end) IN
    [start |-> current_start, end |-> window_end,
     text |-> Join([i \in 1..Len(hit) |-> hit[i].text]),
     segment_ids |-> [i \in 1..Len(hit) |-> hit[i].id]]

\* if not segments: return []; otherwise the locals are set up
cw_call ==
    /\ cw_pc = "call"
    /\ cw_pc' = IF segments = <<>> THEN "return" ELSE "loop"
    /\ current_start' = 0
    /\ windows' = <<>>
    /\ UNCHANGED <<segments, window_size, overlap, svars, pvars, mvars, rvars>>

\* one pass of: while current_start < total_duration.  A loop whose step is
\* not positive is followed for MaxWindows windows.
cw_iterate ==
    /\ cw_pc = "loop"
    /\ current_start < total_duration
    /\ step > 0 \/ (Len(windows) < MaxWindows /\ current_start > -MaxTime)
    /\ windows' = IF Window.segment_ids # <<>>    \* if window_text:
                  THEN Append(windows, Window)
                  ELSE windows
    /\ current_start' = current_start + step
    /\ UNCHANGED <<segments, window_size, overlap, cw_pc, svars, pvars, mvars, rvars>>

\* the loop condition is false: return windows
cw_return ==
    /\ cw_pc = "loop"
    /\ ~(current_start < total_duration)
    /\ cw_pc' = "return"
    /\ UNCHANGED <<segments, window_size, overlap, current_start, windows,
                   svars, pvars, mvars, rvars>>

ServerIdle ==
    /\ tasks = EmptyDict
    /\ task_counter = 0
    /\ fs = [l \in Lectures |-> NoDir]
    /\ req = [r \in Slots |-> IdleReq]

InitWin ==
    /\ segments \in SegmentLists
    /\ window_size \in 0..MaxTime
    /\ overlap \in 0..MaxTime
    /\ cw_pc = "call"
    /\ current_start = 0
    /\ windows = <<>>
    /\ ServerIdle
    /\ SegIdle
    /\ SumIdle
    /\ RerunIdle

NextWin == cw_call \/ cw_iterate \/ cw_return

SpecWin == InitWin /\ [][NextWin]_vars

\* C10: for a non-empty segment list and overlap >= window_size the call
\* ends with a configuration error before any window is built, so the
\* loop, which could not end, never adds a window.
C10_RejectsNonPositiveStep ==
    (segments # <<>> /\ overlap >= window_size) => windows = <<>>

\* C27: the cursor starts at 0, advances by window_size - overlap and the
\* loop goes on exactly while it is < total_duration; at every cursor
\* position visited the window reaches from the cursor to
\* min(cursor + window_size, total_duration) and its segment_ids are exactly
\* the ids of the segments with start < window_end and end > cursor, in
\* segment order (a position where there is none adds no window).
C27_WindowMembership ==
    [][LET total == segments[Len(segments)].end
           we == IF current_start + window_size < total
                 THEN current_start + window_size ELSE total
           hit == {i \in 1..Len(segments) :
                      /\ segments[i].start < we
                      /\ segments[i].end > current_start}
           nth(k) == CHOOSE i \in hit : Cardinality({j \in hit : j <= i}) = k
           ids == [k \in 1..Cardinality(hit) |-> segments[nth(k)].id]
       IN /\ (cw_pc = "call" /\ cw_pc' = "loop") => current_start' = 0
          /\ (cw_pc = "loop" /\ cw_pc' = "loop") =>
                 /\ current_start < total
                 /\ current_start' = current_start + window_size - overlap
                 /\ IF hit = {} THEN windows' = windows
                    ELSE /\ Len(windows') = Len(windows) + 1
                         /\ SubSeq(windows', 1, Len(windows)) = windows
                         /\ windows'[Len(windows')].start = current_start
                         /\ windows'[Len(windows')].end = we
                         /\ windows'[Len(windows')].segment_ids = ids
          /\ (cw_pc = "loop" /\ cw_pc' = "return") =>
                 /\ current_start >= total
                 /\ windows' = windows]_vars

\* a call with overlapping windows has returned, one of its windows holding
\* two segments and another only one of them
C27_Witness ==
    /\ cw_pc = "return"
    /\ 0 < overlap /\ overlap < window_size
    /\ \E i, j \in 1..Len(windows) :
           /\ Len(windows[i].segment_ids) = 2
           /\ windows[j].segment_ids = <<1>>

\* C28: a window is in the output only if at least one of the segments
\* intersecting it has non-empty text; a window whose intersecting segments
\* all have empty text is dropped.
C28_NoAllEmptyWindow ==
    \A i \in 1..Len(windows) :
        \E k \in 1..Len(segments) :
            /\ segments[k].start < windows[i].end
            /\ segments[k].end > windows[i].start
            /\ segments[k].text # ""

\* C29: for segments ordered by start, each with end > start, and
\* 0 <= overlap < window_size, every segment id is in the segment_ids of at
\* least one window of the returned list.
C29_EverySegmentInAWindow ==
    (/\ cw_pc = "return"
     /\ 0 <= overlap /\ overlap < window_size
     /\ \A k \in 1..Len(segments) : segments[k].end > segments[k].start
     /\ \A k \in 1..(Len(segments) - 1) :
            segments[k].start <= segments[k + 1].start)
        => \A k \in 1..Len(segments) :
               \E i \in 1..Len(windows) :
                   \E m \in 1..Len(windows[i].segment_ids) :
                       windows[i].segment_ids[m] = segments[k].id

\* a call on two segments, the second starting after the first window,
\* has returned with overlapping windows
C29_Witness ==
    /\ cw_pc = "return"
    /\ 0 < overlap /\ overlap < window_size
    /\ Len(segments) = 2
    /\ segments[1].end > segments[1].start
    /\ segments[2].end > segments[2].start
    /\ segments[2].start >= window_size
    /\ Len(windows) >= 2

\* The call runs on: a loop iteration that can be taken is eventually taken.
SpecWinFair == InitWin /\ [][NextWin]_vars /\ WF_vars(NextWin)

\* C11: for a non-empty segment list and 0 <= overlap < window_size,
\* create_sliding_windows terminates, and at every point of the run the
\* windows built so far (so also the ones returned) are sorted by strictly
\* increasing start, none is longer than window_size and none ends after
\* total_duration, the end of the last segment.
C11_WindowsSortedAndBounded ==
    /\ [](  (segments # <<>> /\ 0 <= overlap /\ overlap < window_size) =>
              /\ \A i \in 1..(Len(windows) - 1) :
                     windows[i].start < windows[i + 1].start
              /\ \A i \in 1..Len(windows) :
                     /\ windows[i].end - windows[i].start <= window_size
                     /\ windows[i].end <= total_duration )
    /\ ( (segments # <<>> /\ 0 <= overlap /\ overlap < window_size)
            ~> (cw_pc = "return") )

\* C11 witness: a call with 0 <= overlap < window_size has returned at
\* least two windows, the last one cut off at total_duration.
C11_Witness ==
    /\ cw_pc = "return"
    /\ segments # <<>> /\ 0 <= overlap /\ overlap < window_size
    /\ Len(windows) >= 2
    /\ windows[Len(windows)].end = total_duration
    /\ windows[Len(windows)].end - windows[Len(windows)].start < window_size


(***************************************************************************)
(* worker/transcribe_and_segment.py: steps 3-7 of main(), from the         *)
(* segments to the raw chapters.  Similarities and thresholds are in       *)
(* hundredths (72 is 0.72).                                                *)
(***************************************************************************)
WINDOW_SIZE_SECONDS == 60
WINDOW_OVERLAP_SECONDS == 30
SIMILARITY_THRESHOLD == 72

\* values of --threshold
Thresholds == {0, SIMILARITY_THRESHOLD, 95}

Max(a, b) == IF a > b THEN a ELSE b

Range(seq) == {seq[i] : i \in 1..Len(seq)}

\* What compute_embeddings returns for one text: 0 is the zero vector;
\* 1, 2, 3 are vectors of non-zero norm in one plane, at angles of 0, 26
\* and 60 degrees.
Vectors == 0..3

\* np.dot(a, b) / (norm(a) * norm(b)) of two non-zero vectors
Cosine(a, b) ==
    CASE a = b -> 100
      [] {a, b} = {1, 2} -> 90
      [] {a, b} = {1, 3} -> 50
      [] {a, b} = {2, 3} -> 83

\* cos_sim: with a zero vector the dot product and the product of the norms
\* are both 0.0, and numpy's 0.0 / 0.0 is nan (a warning, no exception)
cos_sim(a, b) ==
    IF a = 0 \/ b = 0
    THEN [nan |-> TRUE, value |-> 0]
    ELSE [nan |-> FALSE, value |-> Cosine(a, b)]

\* similarities: one entry per pair of adjacent embeddings
similarities(emb) == [i \in 1..(Len(emb) - 1) |-> cos_sim(emb[i], emb[i + 1])]

\* if sim > threshold (the comparison turned round)
is_boundary_above(sim, t) == ~sim.nan /\ sim.value > t

\* if sim < threshold: a comparison with nan is False
is_boundary(sim, t) == ~sim.nan /\ sim.value < t

\* detect_topic_boundaries: the indices (from 0) of the windows that start
\* a chapter; entry i of similarities here is Python's similarities[i - 1],
\* whose boundary is i
detect_topic_boundaries(emb, t) ==
    IF Len(emb) < 2 THEN <<>>
    ELSE LET sims == similarities(emb) IN
         <<0>> \o SelectSeq([i \in 1..Len(sims) |-> i],
                            LAMBDA i : is_boundary(sims[i], t))

\* sorted(list(all_segment_ids))
RECURSIVE Sorted(_)
Sorted(S) ==
    IF S = {} THEN <<>>
    ELSE LET m == CHOOSE x \in S : \A y \in S : x <= y IN
         <<m>> \o Sorted(S \ {m})

\* seq[from:to] of Python: a negative index counts from the end, and an
\* index past either end is cut off there
Slice(seq, from, to) ==
    LET n == Len(seq)
        At(i) == IF i < 0 THEN Max(i + n, 0) ELSE Min(i, n)
    IN SubSeq(seq, At(from) + 1, At(to))

\* the windows of pass i (from 0) of the loop over the boundaries
chapter_windows(wins, bnds, i) ==
    LET start_idx == bnds[i + 1]
        end_idx == IF i + 1 < Len(bnds) THEN bnds[i + 2] ELSE Len(wins)
    IN Slice(wins, start_idx, end_idx)

\* 'end': chapter_windows[0]['end'], the first window's end
Chapter_first_window_end(i, cw) ==
    [chapter_id |-> i,
     start |-> cw[1].start,
     end |-> cw[1].end,
     segment_ids |-> Sorted(UNION {Range(cw[k].segment_ids) : k \in 1..Len(cw)}),
     text |-> Join([k \in 1..Len(cw) |-> cw[k].text])]

\* the chapter built in pass i from its windows cw
Chapter(i, cw) ==
    [chapter_id |-> i,
     start |-> cw[1].start,
     end |-> cw[Len(cw)].end,
     segment_ids |-> Sorted(UNION {Range(cw[k].segment_ids) : k \in 1..Len(cw)}),
     text |-> Join([k \in 1..Len(cw) |-> cw[k].text])]

\* passes i, i + 1, ... of the loop; a pass without windows adds nothing
RECURSIVE MergeFrom(_, _, _)
MergeFrom(wins, bnds, i) ==
    IF i >= Len(bnds) THEN <<>>
    ELSE LET cw == chapter_windows(wins, bnds, i) IN
         (IF Len(cw) = 0 THEN <<>> ELSE <<Chapter(i, cw)>>)
             \o MergeFrom(wins, bnds, i + 1)

merge_windows_into_chapters(wins, bnds) == MergeFrom(wins, bnds, 0)

\* the chapter's text is left as merge_windows_into_chapters joined it
\* from the window texts
window_text_of_chapter(chapter, segs) == chapter.text

\* reconstruct_chapter_text: segment_dict maps an id to the last segment
\* that carries it; ids that are not in the dict are skipped
reconstruct_chapter_text(chapter, segs) ==
    LET Known(id) == \E i \in 1..Len(segs) : segs[i].id = id
        ids == SelectSeq(chapter.segment_ids, Known)
        Last(id) == CHOOSE i \in 1..Len(segs) :
                        /\ segs[i].id = id
                        /\ \A j \in 1..Len(segs) : segs[j].id = id => j <= i
    IN Join([k \in 1..Len(ids) |-> segs[Last(ids[k])].text])

\* the embedder after it encoded the window texts as e
encoded(e) ==
    [t \in DOMAIN embedder \cup {windows[i].text : i \in 1..Len(windows)} |->
        IF HasKey(embedder, t) THEN embedder[t]
        ELSE e[CHOOSE i \in 1..Len(windows) : windows[i].text = t]]

\* Step 4: embeddings = compute_embeddings(window_texts), one vector per
\* window, whatever the embedder returns; the model is a function of the
\* text, so a text it has encoded gets the same vector again
compute_embeddings ==
    /\ seg_pc = "windows" /\ cw_pc = "return"
    /\ \E e \in [1..Len(windows) -> Vectors] :
           /\ \A i, j \in 1..Len(windows) :
                  windows[i].text = windows[j].text => e[i] = e[j]
           /\ \A i \in 1..Len(windows) :
                  HasKey(embedder, windows[i].text) =>
                      e[i] = embedder[windows[i].text]
           /\ embeddings' = e
           /\ embedder' = encoded(e)
    /\ seg_pc' = "detect"
    /\ UNCHANGED <<svars, mvars, disk, run, after_first, segments, window_size, overlap, cw_pc,
                   current_start, windows, threshold, boundaries, chapters>>

\* Step 5: boundaries = detect_topic_boundaries(embeddings, args.threshold)
detect_boundaries ==
    /\ seg_pc = "detect"
    /\ boundaries' = detect_topic_boundaries(embeddings, threshold)
    /\ seg_pc' = "merge"
    /\ UNCHANGED <<svars, mvars, rvars, segments, window_size, overlap, cw_pc,
                   current_start, windows, threshold, embeddings, chapters>>

\* Step 6: chapters = merge_windows_into_chapters(windows, boundaries)
merge_chapters ==
    /\ seg_pc = "merge"
    /\ chapters' = merge_windows_into_chapters(windows, boundaries)
    /\ seg_pc' = "reconstruct"
    /\ UNCHANGED <<svars, mvars, rvars, segments, window_size, overlap, cw_pc,
                   current_start, windows, threshold, embeddings, boundaries>>

\* Step 7: for chapter in chapters: chapter['text'] = reconstruct_chapter_text(...)
reconstruct_texts ==
    /\ seg_pc = "reconstruct"
    /\ chapters' = [k \in 1..Len(chapters) |->
                       [chapters[k] EXCEPT
                           !.text = reconstruct_chapter_text(chapters[k], segments)]]
    /\ seg_pc' = "done"
    /\ UNCHANGED <<svars, mvars, rvars, segments, window_size, overlap, cw_pc,
                   current_start, windows, threshold, embeddings, boundaries>>

\* the transcript of the worked example
ExampleSegments ==
    <<[id |-> 0, start |-> 0, end |-> 30, text |-> "A"],
      [id |-> 1, start |-> 30, end |-> 90, text |-> "B"],
      [id |-> 2, start |-> 90, end |-> 150, text |-> "C"]>>

\* The script is run on a short transcript with any --window-size and
\* --overlap, or on the example transcript with the default ones; the
\* threshold is the default (SpecDetect draws the others).
InitSeg ==
    /\ \/ /\ segments \in SegmentLists
          /\ window_size \in 0..MaxTime
          /\ overlap \in 0..MaxTime
       \/ /\ segments = ExampleSegments
          /\ window_size = WINDOW_SIZE_SECONDS
          /\ overlap = WINDOW_OVERLAP_SECONDS
    /\ threshold = SIMILARITY_THRESHOLD
    /\ cw_pc = "call"
    /\ current_start = 0
    /\ windows = <<>>
    /\ embeddings = <<>>
    /\ boundaries = <<>>
    /\ chapters = <<>>
    /\ seg_pc = "windows"
    /\ ServerIdle
    /\ SumIdle
    /\ RerunIdle

NextSeg ==
    \/ cw_call
    \/ cw_iterate
    \/ cw_return
    \/ compute_embeddings
    \/ detect_boundaries
    \/ merge_chapters
    \/ reconstruct_texts

SpecSeg == InitSeg /\ [][NextSeg]_vars

\* C13: for every transcript (of segments that each last some time) and
\* 0 <= overlap < window_size, each segment id of the transcript is in the
\* segment_ids of exactly one raw chapter the pipeline produced: none is
\* dropped, none is in two chapters.
C13_EachSegmentInOneChapter ==
    (/\ seg_pc = "done" /\ 0 <= overlap /\ overlap < window_size
     /\ \A i \in 1..Len(segments) : segments[i].start < segments[i].end) =>
        \A i \in 1..Len(segments) :
            Cardinality({k \in 1..Len(chapters) :
                            segments[i].id \in Range(chapters[k].segment_ids)}) = 1

\* C14: for windows built with 0 <= overlap < window_size the raw chapters
\* are contiguous and do not overlap in time: each chapter ends exactly
\* where the next one starts.
C14_ChaptersContiguous ==
    (seg_pc = "done" /\ 0 <= overlap /\ overlap < window_size) =>
        \A k \in 1..(Len(chapters) - 1) : chapters[k].end = chapters[k + 1].start

\* C15: after the reconstruction pass each raw chapter's segment_ids are
\* strictly ascending and its text is the space-joined texts of exactly
\* those segments of the transcript, each taken once in that order, also
\* when the chapter's windows overlapped and shared segments.
C15_TextFromSegmentsOnce ==
    seg_pc = "done" =>
        \A k \in 1..Len(chapters) :
            LET ids == chapters[k].segment_ids
                own == SelectSeq(segments, LAMBDA seg : seg.id \in Range(ids))
            IN /\ \A i \in 1..(Len(ids) - 1) : ids[i] < ids[i + 1]
               /\ chapters[k].text = Join([i \in 1..Len(own) |-> own[i].text])

\* C15 witness: a finished run has a chapter whose windows shared a
\* segment, so that the joined window texts repeated a text that the
\* reconstructed text holds once.
C15_Witness ==
    /\ seg_pc = "done"
    /\ \E k \in 1..Len(chapters) :
           /\ chapters[k].text # ""
           /\ chapters[k].text # merge_windows_into_chapters(windows, boundaries)[k].text
           /\ \E i \in 1..(Len(windows) - 1) :
                  Range(windows[i].segment_ids) \cap Range(windows[i + 1].segment_ids) # {}

InitDetect ==
    /\ embeddings \in UNION {[1..n -> Vectors] : n \in 0..MaxWindows}
    /\ threshold \in Thresholds
    /\ boundaries = <<>>
    /\ chapters = <<>>
    /\ seg_pc = "detect"
    /\ WinIdle
    /\ ServerIdle
    /\ SumIdle
    /\ RerunIdle

SpecDetect == InitDetect /\ [][detect_boundaries]_vars

\* C12: for N >= 1 embeddings and any threshold, detect_topic_boundaries
\* returns strictly increasing indices within 0..N-1 that begin with 0
\* (so exactly [0] for N = 1); for N = 0 it returns the empty sequence.
C12_BoundariesStartAtZero ==
    seg_pc = "merge" =>
        LET N == Len(embeddings) IN
        /\ N >= 1 =>
              /\ Len(boundaries) >= 1
              /\ boundaries[1] = 0
              /\ \A i \in 1..Len(boundaries) : boundaries[i] \in 0..(N - 1)
              /\ \A i \in 1..(Len(boundaries) - 1) :
                     boundaries[i] < boundaries[i + 1]
        /\ N = 1 => boundaries = <<0>>
        /\ N = 0 => boundaries = <<>>


\* C18: whenever embedding i or embedding i+1 has zero norm, the pair's
\* similarity counts as 0, so for every threshold > 0 the result holds the
\* boundary i+1; no division by zero or undefined comparison suppresses it.
C18_ZeroNormForcesBoundary ==
    (seg_pc = "merge" /\ threshold > 0) =>
        \A j \in 1..(Len(embeddings) - 1) :
            (embeddings[j] = 0 \/ embeddings[j + 1] = 0) =>
                j \in Range(boundaries)

C30_BoundaryIffAdjacentBelow ==
    (seg_pc = "merge" /\ Len(embeddings) >= 2) =>
        \A j \in 1..(Len(embeddings) - 1) :
            LET a == embeddings[j]
                b == embeddings[j + 1]
                similarity == IF a = 0 \/ b = 0 THEN 0
                              ELSE IF a = b THEN 100
                              ELSE IF {a, b} = {1, 2} THEN 90
                              ELSE IF {a, b} = {1, 3} THEN 50
                              ELSE 83
            IN (\E i \in 1..Len(boundaries) : boundaries[i] = j)
                   <=> similarity < threshold

(***************************************************************************)
(* worker/summarize_chapters.py: summarize_chapters, one summarizer call   *)
(* per raw chapter.  importance is in hundredths (50 is 0.5).              *)
(***************************************************************************)
\* chapters_raw.json as the transcription script writes it
RECURSIVE RawChapterListsOfLen(_)
RawChapterListsOfLen(n) ==
    IF n = 0 THEN {<<>>}
    ELSE UNION { { Append(c, [chapter_id |-> n - 1, start |-> n - 1, end |-> n,
                              segment_ids |-> <<n - 1>>, text |-> t]) :
                       t \in {"", Letters[n]} }
                 : c \in RawChapterListsOfLen(n - 1) }

RawChapterLists == UNION { RawChapterListsOfLen(n) : n \in 0..MaxChapters }

\* How one summarizer call can go.  The reply parses to the object asked
\* for ("success"), to an object with importance 1.5 and six key points
\* ("out_of_range"), to an object without the fields ("missing_fields"), to
\* an object whose importance is not a number ("bad_importance") or to JSON
\* that is not an object ("not_object"); the reply is not JSON
\* ("unparsable"); the call raises ("raised") or times out ("timeout");
\* the Gemini package cannot be imported ("not_installed").
Outcomes == {"success", "out_of_range", "missing_fields", "bad_importance",
             "not_object", "unparsable", "raised", "timeout", "not_installed"}

\* f"Chapter {chapter.get('chapter_id', 0) + 1}"
ChapterTitle(n) == <<"Chapter", n>>

GeminiFallbackSummary == "Summary unavailable due to API error."
OllamaFallbackSummary == "Summary unavailable due to processing error."

\* the fallback dict both backends return, up to the summary text
Fallback(chapter, text) ==
    [title |-> ChapterTitle(chapter.chapter_id + 1),
     summary |-> text,
     importance |-> 50,
     key_points |-> <<"Content transcribed but not summarized">>]

\* json.loads(...) of a reply that parses to an object with a numeric importance
Parsed(o) ==
    CASE o = "success" ->
           [title |-> <<"Gradient Descent Intuition", 0>>,
            summary |-> "Explains the intuition behind gradient descent.",
            importance |-> 93,
            key_points |-> <<"k1", "k2", "k3">>]
      [] o = "out_of_range" ->
           [title |-> <<"Gradient Descent Intuition", 0>>,
            summary |-> "Explains the intuition behind gradient descent.",
            importance |-> 150,
            key_points |-> <<"k1", "k2", "k3", "k4", "k5", "k6">>]
      [] o = "missing_fields" -> EmptyDict

\* summarize_with_gemini: every exception of the API call or of json.loads
\* is caught and answered with the fallback
summarize_with_gemini(chapter, o) ==
    IF o \in {"unparsable", "raised", "timeout"}
    THEN Fallback(chapter, GeminiFallbackSummary)
    ELSE Parsed(o)

\* summarize_with_ollama: timeout, JSONDecodeError and any other exception
\* are caught and answered with the fallback
summarize_with_ollama(chapter, o) ==
    IF o \in {"unparsable", "raised", "timeout"}
    THEN Fallback(chapter, OllamaFallbackSummary)
    ELSE Parsed(o)

\* The calls that end the run: sys.exit(1) when the Gemini package is
\* missing; summary.get(...) on JSON that is not an object and float(...)
\* of an importance that is not a number raise, and nothing catches them.
Aborts(gemini, o) ==
    \/ gemini /\ o = "not_installed"
    \/ o \in {"not_object", "bad_importance"}

\* summary.get(key, default)
Get(d, key, default) == IF key \in DOMAIN d THEN d[key] ELSE default

\* enriched = {...}; enriched.update({...})
Enriched(chapter, summary) ==
    [chapter_id |-> chapter.chapter_id,
     start |-> chapter.start,
     end |-> chapter.end,
     text |-> chapter.text,
     title |-> Get(summary, "title", ChapterTitle(chapter.chapter_id + 1)),
     summary |-> Get(summary, "summary", ""),
     importance |-> Get(summary, "importance", 50),
     key_points |-> Get(summary, "key_points", <<>>)]

\* one pass of: for chapter in iterator
sc_iterate ==
    /\ sum_pc = "loop"
    /\ Len(outcomes) < Len(raw_chapters)
    /\ LET chapter == raw_chapters[Len(outcomes) + 1] IN
       \E o \in (IF use_gemini THEN Outcomes ELSE Outcomes \ {"not_installed"}) :
           /\ outcomes' = Append(outcomes, o)
           /\ IF Aborts(use_gemini, o)
              THEN /\ sum_pc' = "aborted"
                   /\ UNCHANGED enriched_chapters
              ELSE /\ enriched_chapters' =
                        Append(enriched_chapters,
                               Enriched(chapter,
                                        IF use_gemini
                                        THEN summarize_with_gemini(chapter, o)
                                        ELSE summarize_with_ollama(chapter, o)))
                   /\ UNCHANGED sum_pc
    /\ UNCHANGED <<svars, pvars, rvars, raw_chapters, use_gemini, segments, window_size,
                   overlap, cw_pc, current_start, windows>>

\* the loop is over: return enriched_chapters
sc_return ==
    /\ sum_pc = "loop"
    /\ Len(outcomes) = Len(raw_chapters)
    /\ sum_pc' = "return"
    /\ UNCHANGED <<svars, pvars, rvars, raw_chapters, use_gemini, outcomes,
                   enriched_chapters, segments, window_size, overlap, cw_pc,
                   current_start, windows>>

InitSum ==
    /\ raw_chapters \in RawChapterLists
    /\ use_gemini \in BOOLEAN
    /\ outcomes = <<>>
    /\ enriched_chapters = <<>>
    /\ sum_pc = "loop"
    /\ ServerIdle
    /\ WinIdle
    /\ SegIdle
    /\ RerunIdle

NextSum == sc_iterate \/ sc_return

SpecSum == InitSum /\ [][NextSum]_vars

\* C17: for every list of raw chapters and every pattern of summarizer
\* outcomes (success, raised error, timeout, unparsable or malformed
\* reply) the run does not abort and returns one enriched record per raw
\* chapter in the same order, and each chapter whose call failed has the
\* fallback title "Chapter {n}", summary "Summary unavailable due to API
\* error.", importance 0.5 and the one fallback key point, with Gemini and
\* with Ollama alike.
C17_FallbackPerChapter ==
    (\A i \in 1..Len(outcomes) : outcomes[i] # "not_installed") =>
        /\ sum_pc # "aborted"
        /\ sum_pc = "return" =>
              /\ Len(enriched_chapters) = Len(raw_chapters)
              /\ \A i \in 1..Len(raw_chapters) :
                     /\ enriched_chapters[i].chapter_id = raw_chapters[i].chapter_id
                     /\ outcomes[i] \notin {"success", "out_of_range"} =>
                            /\ enriched_chapters[i].title =
                                   ChapterTitle(raw_chapters[i].chapter_id + 1)
                            /\ enriched_chapters[i].summary =
                                   "Summary unavailable due to API error."
                            /\ enriched_chapters[i].importance = 50
                            /\ enriched_chapters[i].key_points =
                                   <<"Content transcribed but not summarized">>

\* C20: every enriched chapter the run returns for writing carries the
\* fields of its raw chapter unchanged (chapter_id, start, end,
\* segment_ids, text) and also title, summary, importance and key_points.
C20_RawFieldsKept ==
    sum_pc = "return" =>
        \A i \in 1..Len(enriched_chapters) :
            /\ {"title", "summary", "importance", "key_points"}
                   \subseteq DOMAIN enriched_chapters[i]
            /\ \A f \in {"chapter_id", "start", "end", "segment_ids", "text"} :
                   /\ f \in DOMAIN enriched_chapters[i]
                   /\ enriched_chapters[i][f] = raw_chapters[i][f]


\* C21: every enriched chapter the run returns for writing to chapters.json
\* has an importance within [0.0, 1.0] and at most 5 key points, whatever
\* the summarizer replied.
C21_ImportanceAndKeyPointsBounded ==
    sum_pc = "return" =>
        \A i \in 1..Len(enriched_chapters) :
            /\ 0 <= enriched_chapters[i].importance
            /\ enriched_chapters[i].importance <= 100
            /\ Len(enriched_chapters[i].key_points) <= 5


(***************************************************************************)
(* worker/transcribe_and_segment.py: main, run twice on one lecture        *)
(* directory.  Each invocation runs to the end; both get the same          *)
(* arguments.                                                              *)
(***************************************************************************)
SegmentKeys == <<"id", "start", "end", "text">>
ChapterKeys == <<"chapter_id", "start", "end", "segment_ids", "text">>

\* json.dump(objs, f): each dict written as its "key": value pairs, in order
json_dump(objs, keys) ==
    [i \in 1..Len(objs) |->
        [k \in 1..Len(keys) |-> <<keys[k], objs[i][keys[k]]>>]]

\* json.load(f): each object read back as a dict (a repeated key keeps its
\* last value)
json_load(doc) ==
    [i \in 1..Len(doc) |->
        [key \in {doc[i][k][1] : k \in 1..Len(doc[i])} |->
            LET last == CHOOSE k \in 1..Len(doc[i]) :
                            /\ doc[i][k][1] = key
                            /\ \A m \in 1..Len(doc[i]) :
                                   doc[i][m][1] = key => m <= k
            IN doc[i][last][2]]]

\* format_timestamp_srt: HH:MM:SS,mmm of a whole number of seconds
format_timestamp_srt(seconds) ==
    <<seconds \div 3600, (seconds % 3600) \div 60, seconds % 60, 0>>

\* segments_to_srt: one numbered block per segment
segments_to_srt(segs) ==
    [i \in 1..Len(segs) |->
        <<i, format_timestamp_srt(segs[i].start),
          format_timestamp_srt(segs[i].end), segs[i].text>>]

audio_path_exists == disk.audio.exists

\* a check of a file name the script never writes
transcript_path_exists == FALSE

segments_path_exists == disk.segments_json.exists

\* Step 1: if not audio_path.exists(): extract_audio(...)
main_audio ==
    /\ run.pc = "step1"
    /\ disk' = IF audio_path_exists THEN disk
               ELSE [disk EXCEPT !.audio = File(<<"wav">>)]
    /\ run' = [run EXCEPT !.pc = "step2"]
    /\ UNCHANGED <<svars, pvars, mvars, after_first, embedder, segments,
                   window_size, overlap, cw_pc, current_start, windows>>

\* Step 2: transcribe and write segments.json and lecture.srt, or load
\* segments.json; then Step 3 calls create_sliding_windows
main_transcribe ==
    /\ run.pc = "step2"
    /\ IF ~segments_path_exists
       THEN \E s \in SegmentLists :
                /\ segments' = s
                /\ disk' = [disk EXCEPT
                               !.segments_json = File(json_dump(s, SegmentKeys)),
                               !.srt = File(segments_to_srt(s))]
       ELSE /\ segments' = json_load(disk.segments_json.content)
            /\ disk' = disk
    /\ run' = [run EXCEPT !.pc = "step3"]
    /\ cw_pc' = "call"
    /\ seg_pc' = "windows"
    /\ UNCHANGED <<svars, mvars, after_first, embedder, window_size, overlap,
                   current_start, windows, threshold, embeddings, boundaries,
                   chapters>>

\* Step 8: json.dump(chapters, ...) into chapters_raw.json; the script ends
main_save ==
    /\ run.pc = "step3"
    /\ seg_pc = "done"
    /\ disk' = [disk EXCEPT !.chapters_raw_json =
                           File(json_dump(chapters, ChapterKeys))]
    /\ after_first' = IF run.n = 1 THEN disk' ELSE after_first
    /\ run' = [run EXCEPT !.pc = "exit"]
    /\ UNCHANGED <<svars, pvars, mvars, embedder, segments, window_size,
                   overlap, cw_pc, current_start, windows>>

\* the script is invoked again with the same arguments: a new process
main_again ==
    /\ run = [n |-> 1, pc |-> "exit"]
    /\ run' = [n |-> 2, pc |-> "step1"]
    /\ segments' = <<>>
    /\ cw_pc' = "off"
    /\ current_start' = 0
    /\ windows' = <<>>
    /\ embeddings' = <<>>
    /\ boundaries' = <<>>
    /\ chapters' = <<>>
    /\ seg_pc' = "off"
    /\ UNCHANGED <<svars, mvars, disk, after_first, embedder, window_size,
                   overlap, threshold>>

\* A lecture directory that holds only the uploaded video; any
\* --window-size and --overlap, the default threshold.
InitRerun ==
    /\ disk = NoFiles
    /\ run = [n |-> 1, pc |-> "step1"]
    /\ after_first = NoFiles
    /\ embedder = EmptyDict
    /\ segments = <<>>
    /\ window_size \in 0..MaxTime
    /\ overlap \in 0..MaxTime
    /\ cw_pc = "off"
    /\ current_start = 0
    /\ windows = <<>>
    /\ threshold = SIMILARITY_THRESHOLD
    /\ embeddings = <<>>
    /\ boundaries = <<>>
    /\ chapters = <<>>
    /\ seg_pc = "off"
    /\ ServerIdle
    /\ SumIdle

NextRerun ==
    \/ main_audio
    \/ main_transcribe
    \/ cw_call
    \/ cw_iterate
    \/ cw_return
    \/ compute_embeddings
    \/ detect_boundaries
    \/ merge_chapters
    \/ reconstruct_texts
    \/ main_save
    \/ main_again

SpecRerun == InitRerun /\ [][NextRerun]_vars

\* C23: with a deterministic embedder, a second invocation of the script
\* after a first one that succeeded leaves segments.json and lecture.srt
\* as the first left them throughout, and when it has ended
\* chapters_raw.json too holds what it held after the first invocation.
C23_RerunIdempotent ==
    run.n = 2 =>
        /\ disk.segments_json = after_first.segments_json
        /\ disk.srt = after_first.srt
        /\ run.pc = "exit" =>
               disk.chapters_raw_json = after_first.chapters_raw_json

\* a second invocation ended on a directory whose chapters_raw.json has
\* two chapters
C23_Witness ==
    /\ run = [n |-> 2, pc |-> "exit"]
    /\ Len(after_first.chapters_raw_json.content) >= 2
    /\ Len(disk.segments_json.content) >= 2

(***************************************************************************)
(* worker/transcribe_and_segment.py: merge_windows_into_chapters, called   *)
(* with any window list and any boundary list.                             *)
(***************************************************************************)
\* windows as create_sliding_windows builds them: a time range, a text and
\* the ids of the segments inside
WindowShapes ==
    { [start |-> 0, end |-> 2, text |-> "A", segment_ids |-> <<0>>],
      [start |-> 0, end |-> 2, text |-> "A B", segment_ids |-> <<0, 1>>],
      [start |-> 1, end |-> 3, text |-> "B", segment_ids |-> <<1>>],
      [start |-> 1, end |-> 3, text |-> "C", segment_ids |-> <<2>>] }

WindowLists == UNION { [1..n -> WindowShapes] : n \in 0..MaxWindows }

\* lists of window indices, in any order, some negative or past the end
BoundaryLists == UNION { [1..n -> -1..(MaxWindows + 1)] : n \in 0..MaxWindows }

InitMerge ==
    /\ windows \in WindowLists
    /\ boundaries \in BoundaryLists
    /\ chapters = <<>>
    /\ seg_pc = "merge"
    /\ threshold = 0
    /\ embeddings = <<>>
    /\ segments = <<>>
    /\ window_size = 0
    /\ overlap = 0
    /\ cw_pc = "off"
    /\ current_start = 0
    /\ ServerIdle
    /\ SumIdle
    /\ RerunIdle

SpecMerge == InitMerge /\ [][merge_chapters]_vars

\* C31: for N windows and a strictly increasing boundary list that starts
\* with 0 and stays below N, merge_windows_into_chapters returns one chapter
\* per boundary; chapter k covers windows b_k .. b_{k+1} - 1 (the last one
\* up to N - 1), starts where its first window starts, ends where its last
\* window ends, and lists the ids of its windows' segments ascending without
\* duplicates; every window is in exactly one chapter.
C31_ChaptersFollowBoundaries ==
    LET N == Len(windows)
        B == Len(boundaries)
        first(k) == boundaries[k] + 1
        last(k) == IF k < B THEN boundaries[k + 1] ELSE N
    IN (/\ seg_pc = "reconstruct"
        /\ B >= 1
        /\ boundaries[1] = 0
        /\ \A k \in 1..(B - 1) : boundaries[k] < boundaries[k + 1]
        /\ \A k \in 1..B : boundaries[k] < N)
           => /\ Len(chapters) = B
              /\ \A k \in 1..B :
                     /\ chapters[k].start = windows[first(k)].start
                     /\ chapters[k].end = windows[last(k)].end
                     /\ \A m \in 1..(Len(chapters[k].segment_ids) - 1) :
                            chapters[k].segment_ids[m] <
                                chapters[k].segment_ids[m + 1]
                     /\ {chapters[k].segment_ids[m] :
                             m \in 1..Len(chapters[k].segment_ids)}
                          = UNION { {windows[w].segment_ids[m] :
                                         m \in 1..Len(windows[w].segment_ids)} :
                                    w \in first(k)..last(k) }
              /\ \A w \in 1..N :
                     Cardinality({k \in 1..B : first(k) <= w /\ w <= last(k)}) = 1

\* two chapters were built from three windows, one of them from two
\* windows that share a segment and end at different times
C31_Witness ==
    /\ seg_pc = "reconstruct"
    /\ Len(windows) = 3
    /\ boundaries = <<0, 2>>
    /\ Len(chapters) = 2
    /\ windows[1].segment_ids = <<0, 1>>
    /\ windows[2].segment_ids = <<1>>
    /\ windows[1].end # windows[2].end

\* C32: in every output of merge_windows_into_chapters, for any windows
\* and any boundary list (repeated or out-of-range indices included), the
\* chapter at position k (from 0) has chapter_id = k.
C32_ChapterIdIsPosition ==
    seg_pc = "reconstruct" =>
        \A k \in 1..Len(chapters) : chapters[k].chapter_id = k - 1

=============================================================================
